---- MODULE Spec2Model ----
(***************************************************************************)
(* The scenegraph of src/core/scene.cpp and api/wayfire/scene.hpp: the     *)
(* root node, its layer nodes, the per-output containers with their static *)
(* and dynamic children, and the nodes plugins add, under                  *)
(* set_children_list, handle_outputs_changed and find_node_at.             *)
(***************************************************************************)
EXTENDS Integers, Sequences, FiniteSets, TLC

(***************************************************************************)
(* Bounds and fixtures                                                     *)
(***************************************************************************)
\* enum class layer: BACKGROUND = 0 .. OVERLAY = 5, ALL_LAYERS the count.
ALL_LAYERS == 6

\* Number of distinct wf::output_t identities the output layout reports.
MaxOutputs == 2

\* Number of output_node_t objects handle_outputs_changed may allocate.
MaxAlloc == 1
MaxHotplug == 2

\* Number of accepted set_children_list calls that change a child list.
MaxEdits == 2

BACKGROUND == 0
BOTTOM == 1
WORKSPACE == 2
TOP == 3
UNMANAGED == 4
OVERLAY == 5

Outputs == 1 .. MaxOutputs
Allocs == 1 .. (IF MaxAlloc > MaxHotplug THEN MaxAlloc ELSE MaxHotplug)

(***************************************************************************)
(* Node identities (the addresses of the node_t objects)                   *)
(***************************************************************************)
Root == <<"root", 0>>
LayerNode(i) == <<"layer", i>>
OutputNode(k) == <<"output", k>>
StaticNode(k) == <<"static", k>>
DynamicNode(k) == <<"dynamic", k>>

\* nullptr, an indeterminate (never written) pointer, an empty optional and
\* a traversal that exhausts the stack.
NULL == <<"null", 0>>
INDETERMINATE == <<"indeterminate", 0>>
EMPTY == <<"empty", 0>>
ABORT == <<"abort", 0>>
OVERFLOW == <<"overflow", 0>>

LayerNodes == {LayerNode(i) : i \in 0 .. (ALL_LAYERS - 1)}
OutputNodes == {OutputNode(k) : k \in Allocs}
StaticNodes == {StaticNode(k) : k \in Allocs}
DynamicNodes == {DynamicNode(k) : k \in Allocs}

\* Nodes made by plugins: two leaves (views) and one plain inner_node_t(false).
LeafA == <<"leaf", 1>>
LeafB == <<"leaf", 2>>
Group == <<"inner", 1>>
Leaves == {LeafA, LeafB}
PluginInner == {Group}
PluginNodes == Leaves \cup PluginInner

\* The layers the output layout and the plugins of this model work on.
ActiveLayers == {LayerNode(WORKSPACE), LayerNode(TOP)}

StructureNodes == {Root} \cup LayerNodes \cup OutputNodes \cup StaticNodes \cup DynamicNodes
InnerNodes == StructureNodes \cup PluginInner
Nodes == InnerNodes \cup Leaves

\* The points hit tests are made at and the region each leaf covers.
Points == 1 .. 3
Region(n) == IF n = LeafA THEN {1, 2} ELSE IF n = LeafB THEN {2} ELSE {}

(***************************************************************************)
(* State                                                                   *)
(***************************************************************************)
VARIABLES
    children,   \* inner_node_t::children of every inner node
    parent,     \* node_t::_parent of every node
    outputs,    \* layer_node_t::outputs of every layer node
    nalloc,     \* how many output_node_t objects have been constructed
    edits,      \* how many accepted calls have changed a child list
    op,         \* the entry point that has just run ("idle": between events)
    self,       \* the node it ran on
    arg,        \* the list handed to set_children_list
    ret,        \* the value set_children_list returned
    at,         \* the point handed to find_node_at, the output handed to the layer
    hit,        \* what find_node_at returned (EMPTY: no value)
    before      \* children, parent and outputs as they were when it was entered

tree == <<children, parent, outputs, nalloc, edits>>
call == <<op, self, arg, ret, at, hit, before>>
vars == <<children, parent, outputs, nalloc, edits, op, self, arg, ret, at, hit, before>>

snapshot == [children |-> children, parent |-> parent, outputs |-> outputs]

Allocated == {OutputNode(k) : k \in 1 .. nalloc}
                \cup {StaticNode(k) : k \in 1 .. nalloc}
                \cup {DynamicNode(k) : k \in 1 .. nalloc}
LiveNodes == {Root} \cup LayerNodes \cup Allocated \cup PluginNodes
\* The inner nodes plugins and input dispatch hold a reference to.
Receivers == ({Root} \cup ActiveLayers \cup Allocated \cup PluginNodes) \cap InnerNodes

(***************************************************************************)
(* Sequence helpers (std::vector operations)                               *)
(***************************************************************************)
Range(list) == {list[i] : i \in 1 .. Len(list)}
\* Mutant: the entry is put in at the front.
push_front(list, x) == <<x>> \o list
push_back(list, x) == Append(list, x)
insert(list, i, x) == SubSeq(list, 1, i - 1) \o <<x>> \o SubSeq(list, i, Len(list))
erase(list, i) == SubSeq(list, 1, i - 1) \o SubSeq(list, i + 1, Len(list))
swap(list, i, j) ==
    [k \in 1 .. Len(list) |-> IF k = i THEN list[j] ELSE IF k = j THEN list[i] ELSE list[k]]

(***************************************************************************)
(* node_t                                                                  *)
(***************************************************************************)
\* node_t::node_t sets _is_structure once; the core passes true for the root,
\* layer, output, static and dynamic nodes, plugins pass false.
is_structure_node(n) == n[1] \in {"root", "layer", "output", "static", "dynamic"}

(***************************************************************************)
(* inner_node_t                                                            *)
(***************************************************************************)
RECURSIVE extract_structure_nodes(_)
extract_structure_nodes(list) ==
    IF list = <<>> THEN <<>>
    ELSE IF is_structure_node(Head(list))
         THEN <<Head(list)>> \o extract_structure_nodes(Tail(list))
         ELSE extract_structure_nodes(Tail(list))

\* Mutant: the structure nodes compared as sets, their order forgotten.
structure_unchanged_as_sets(cur, new_list) ==
    Range(extract_structure_nodes(cur)) = Range(extract_structure_nodes(new_list))

\* Mutant: only checked that no structure node of the current list is missing
\* from the new one.
structure_unchanged_none_dropped(cur, new_list) ==
    Range(extract_structure_nodes(cur)) \subseteq Range(extract_structure_nodes(new_list))

\* Mutant: only the number of structure nodes compared.
structure_unchanged_by_count(cur, new_list) ==
    Len(extract_structure_nodes(cur)) = Len(extract_structure_nodes(new_list))

\* The structure check of set_children_list.
structure_unchanged(cur, new_list) ==
    extract_structure_nodes(cur) = extract_structure_nodes(new_list)

\* Mutant: the loop over new_list stops before its last entry.
parents_after_short(par, n, new_list) ==
    [m \in Nodes |->
        IF m \in {new_list[i] : i \in 1 .. (Len(new_list) - 1)} THEN n ELSE par[m]]

\* set_children_unchecked: the _parent fields after the loop, and the lists.
parents_after(par, n, new_list) ==
    [m \in Nodes |-> IF m \in Range(new_list) THEN n ELSE par[m]]
\* Mutant: the new list is appended to the children instead of replacing
\* them.
children_after_appended(ch, n, new_list) == [ch EXCEPT ![n] = ch[n] \o new_list]

children_after(ch, n, new_list) == [ch EXCEPT ![n] = new_list]

\* find_node_at of a leaf is the view's own test of its region; of an inner
\* node it is the loop over get_children().  path holds the inner nodes whose
\* loop is on the call stack: entering one of them again repeats the same
\* call without end and exhausts the stack.
RECURSIVE find_node_at(_, _, _)
RECURSIVE find_in_children(_, _, _)
RECURSIVE find_in_children_backwards(_, _, _)
find_node_at(n, p, path) ==
    IF n \in Leaves THEN (IF p \in Region(n) THEN n ELSE EMPTY)
    ELSE IF n \in path THEN OVERFLOW
    ELSE find_in_children(children[n], p, path \cup {n})
\* Mutant: the loop runs from the last child to the first.
find_in_children_backwards(list, p, path) ==
    IF list = <<>> THEN EMPTY
    ELSE LET child_node == find_node_at(list[Len(list)], p, path)
         IN  IF child_node # EMPTY THEN child_node
             ELSE find_in_children_backwards(SubSeq(list, 1, Len(list) - 1), p, path)

\* Mutant: the result of the first child is returned, empty or not.
find_in_children_first_only(list, p, path) ==
    IF list = <<>> THEN EMPTY ELSE find_node_at(Head(list), p, path)

find_in_children(list, p, path) ==
    IF list = <<>> THEN EMPTY
    ELSE LET child_node == find_node_at(Head(list), p, path)
         IN  IF child_node # EMPTY THEN child_node
             ELSE find_in_children(Tail(list), p, path)

(***************************************************************************)
(* root_node_t                                                             *)
(***************************************************************************)
\* Mutant: the loop runs from layer 0 up to layer i.
RECURSIVE root_children_ascending(_)
root_children_ascending(i) ==
    IF i < 0 THEN <<>> ELSE root_children_ascending(i - 1) \o <<LayerNode(i)>>

\* The constructor's loop: i from ALL_LAYERS - 1 down to 0, push_back(layers[i]).
RECURSIVE root_children(_)
root_children(i) ==
    IF i < 0 THEN <<>> ELSE <<LayerNode(i)>> \o root_children(i - 1)

(***************************************************************************)
(* Initial state: a constructed root_node_t, plugin nodes not yet attached *)
(***************************************************************************)
Init ==
    /\ children = [n \in InnerNodes |->
                      IF n = Root THEN root_children(ALL_LAYERS - 1) ELSE <<>>]
    /\ parent = parents_after([m \in Nodes |-> INDETERMINATE], Root,
                              root_children(ALL_LAYERS - 1))
    /\ outputs = [y \in LayerNodes |-> [o \in Outputs |-> NULL]]
    /\ nalloc = 0
    /\ edits = 0
    /\ op = "root_node_t"
    /\ self = Root
    /\ arg = <<>>
    /\ ret = TRUE
    /\ at = 0
    /\ hit = EMPTY
    /\ before = snapshot

(***************************************************************************)
(* set_children_list                                                       *)
(***************************************************************************)
\* The lists a caller builds from get_children(): the list itself, one node
\* it holds put in at the front or at the back (a structure node: at the
\* back), one entry erased, two neighbours exchanged.
candidate_lists(cur) ==
    {cur}
    \cup {insert(cur, i, x) : i \in {1, Len(cur) + 1}, x \in PluginNodes}
    \cup {push_back(cur, x) : x \in Receivers \cap StructureNodes}
    \cup {erase(cur, i) : i \in 1 .. Len(cur)}
    \cup {swap(cur, i, i + 1) : i \in 1 .. (Len(cur) - 1)}

\* Mutant: the _parent fields are written before the structure check.
set_children_list_parents_first(n, new_list) ==
    /\ op' = "set_children_list"
    /\ self' = n
    /\ arg' = new_list
    /\ at' = 0
    /\ hit' = EMPTY
    /\ before' = snapshot
    /\ UNCHANGED <<outputs, nalloc>>
    /\ parent' = parents_after(parent, n, new_list)
    /\ IF ~structure_unchanged(children[n], new_list)
       THEN /\ ret' = FALSE
            /\ UNCHANGED <<children, edits>>
       ELSE /\ children' = children_after(children, n, new_list)
            /\ edits' = IF new_list = children[n] THEN edits ELSE edits + 1
            /\ ret' = TRUE

set_children_list(n, new_list) ==
    /\ op' = "set_children_list"
    /\ self' = n
    /\ arg' = new_list
    /\ at' = 0
    /\ hit' = EMPTY
    /\ before' = snapshot
    /\ UNCHANGED <<outputs, nalloc>>
    /\ IF ~structure_unchanged(children[n], new_list)
       THEN /\ ret' = FALSE
            /\ UNCHANGED <<children, parent, edits>>
       ELSE /\ parent' = parents_after(parent, n, new_list)
            /\ children' = children_after(children, n, new_list)
            /\ edits' = IF new_list = children[n] THEN edits ELSE edits + 1
            /\ ret' = TRUE

SetChildrenList ==
    \E n \in Receivers :
        \E new_list \in candidate_lists(children[n]) :
            /\ op = "idle"
            /\ (structure_unchanged(children[n], new_list) /\ new_list # children[n])
                   => edits < MaxEdits
            /\ set_children_list(n, new_list)

(***************************************************************************)
(* layer_node_t                                                            *)
(***************************************************************************)
\* Mutant: the o-th output container among the children is returned.
node_for_output_by_position(y, o) ==
    LET containers == extract_structure_nodes(children[y])
    IN  IF o <= Len(containers) THEN containers[o] ELSE NULL

\* The nodes[...] lookup; the static null_output is returned for an output
\* without an entry.
node_for_output(y, o) == outputs[y][o]

\* std::remove on the vector: from the first entry equal to target on, every
\* other entry is moved forward (a moved-from shared_ptr is null); the vector
\* keeps its length and new_end is the position after the entries kept.
RECURSIVE remove_loop(_, _, _, _)
remove_loop(vec, first, i, target) ==
    IF i > Len(vec) THEN [vec |-> vec, new_end |-> first]
    ELSE IF vec[i] # target
         THEN remove_loop([vec EXCEPT ![first] = vec[i], ![i] = NULL],
                          first + 1, i + 1, target)
         ELSE remove_loop(vec, first, i + 1, target)
\* Mutant: the entry at the back is taken for the target.
remove_at_back(vec, target) == [vec |-> vec, new_end |-> Len(vec)]

remove(vec, target) ==
    LET found == {i \in 1 .. Len(vec) : vec[i] = target}
    IN  IF found = {} THEN [vec |-> vec, new_end |-> Len(vec) + 1]
        ELSE LET first == CHOOSE i \in found : \A j \in found : i <= j
             IN  remove_loop(vec, first, first + 1, target)

\* Mutant: the constructor lists dynamic before _static.
output_children_reversed(k) == <<DynamicNode(k), StaticNode(k)>>

\* output_node_t::output_node_t for the k-th container.
output_children(k) == <<StaticNode(k), DynamicNode(k)>>

\* vector::erase(pos). At a position of the vector it erases that entry. At
\* end() the behaviour is undefined: the builds either destroy the last entry
\* and shorten the vector by one, or fault (always so on an empty vector).
erase_outcomes(vec, pos) ==
    IF pos <= Len(vec) THEN {erase(vec, pos)}
    ELSE {<<ABORT>>} \cup (IF Len(vec) > 0 THEN {erase(vec, Len(vec))} ELSE {})

handle_outputs_changed(y, o, add) ==
    /\ self' = y
    /\ arg' = <<>>
    /\ ret' = add
    /\ at' = o
    /\ hit' = EMPTY
    /\ before' = snapshot
    /\ edits' = edits
    /\ IF add
       THEN LET k == nalloc + 1
                list == push_back(children[y], OutputNode(k))
                built == children_after(children, OutputNode(k), output_children(k))
                par == parents_after(parent, OutputNode(k), output_children(k))
            IN  /\ op' = "handle_outputs_changed"
                /\ nalloc' = k
                /\ outputs' = [outputs EXCEPT ![y][o] = OutputNode(k)]
                /\ children' = children_after(built, y, list)
                /\ parent' = parents_after(par, y, list)
       ELSE LET target == outputs[y][o]
                removed == remove(children[y], target)
            IN  \E list \in erase_outcomes(removed.vec, removed.new_end) :
                    IF list = <<ABORT>>
                    THEN /\ op' = "abort"
                         /\ UNCHANGED tree
                    ELSE /\ op' = "handle_outputs_changed"
                         /\ nalloc' = nalloc
                         /\ outputs' = [outputs EXCEPT ![y][o] = NULL]
                         /\ children' = children_after(children, y, list)
                         /\ parent' = parents_after(parent, y, list)

\* The output layout adds an output a layer does not have and removes one it
\* has (the erase of handle_outputs_changed is then given a position inside
\* the vector).
OutputAdded ==
    \E y \in ActiveLayers, o \in Outputs :
        /\ op = "idle"
        /\ outputs[y][o] = NULL
        /\ nalloc < MaxAlloc
        /\ handle_outputs_changed(y, o, TRUE)

OutputRemoved ==
    \E y \in ActiveLayers, o \in Outputs :
        /\ op = "idle"
        /\ outputs[y][o] # NULL
        /\ handle_outputs_changed(y, o, FALSE)

(***************************************************************************)
(* find_node_at, called by input dispatch                                  *)
(***************************************************************************)
\* Mutant: the traversal runs while a set_children_list call of another
\* thread replaces the receiver's list: the first child visited is taken from
\* the old list, the others from the new one.
FindNodeAtDuringUpdate ==
    \E n \in Receivers, p \in Points :
        \E new_list \in candidate_lists(children[n]) :
            /\ structure_unchanged(children[n], new_list)
            /\ new_list # children[n]
            /\ children[n] # <<>>
            /\ edits < MaxEdits
            /\ op' = "find_node_at"
            /\ self' = n
            /\ arg' = <<>>
            /\ ret' = TRUE
            /\ at' = p
            /\ hit' = find_in_children(<<Head(children[n])>> \o Tail(new_list), p, {n})
            /\ before' = snapshot
            /\ parent' = parents_after(parent, n, new_list)
            /\ children' = children_after(children, n, new_list)
            /\ edits' = edits + 1
            /\ UNCHANGED <<outputs, nalloc>>

FindNodeAt ==
    \E n \in Receivers, p \in Points :
        /\ op = "idle"
        /\ op' = "find_node_at"
        /\ self' = n
        /\ arg' = <<>>
        /\ ret' = TRUE
        /\ at' = p
        /\ hit' = find_node_at(n, p, {})
        /\ before' = snapshot
        /\ UNCHANGED tree

(***************************************************************************)
(* The event loop: an entry point runs to completion, then the next event  *)
(***************************************************************************)
Return ==
    /\ op \notin {"idle", "abort"}
    /\ op' = "idle"
    /\ self' = Root
    /\ arg' = <<>>
    /\ ret' = TRUE
    /\ at' = 0
    /\ hit' = EMPTY
    /\ before' = snapshot
    /\ UNCHANGED tree

Next ==
    \/ SetChildrenList
    \/ OutputAdded
    \/ OutputRemoved
    \/ FindNodeAt
    \/ Return

Spec == Init /\ [][Next]_vars

(***************************************************************************)
(* Output hotplug: the output layout adds and removes outputs while        *)
(* plugins arrange views in the layers and under the outputs' nodes, and   *)
(* input dispatch asks the layers                                          *)
(***************************************************************************)
HotplugReceivers == ActiveLayers \cup Allocated

\* The lists a plugin builds from get_children() when it arranges views: one
\* view put in at the front or at the back, one entry erased, two neighbours
\* exchanged.
view_lists(cur) ==
    {insert(cur, i, x) : i \in {1, Len(cur) + 1}, x \in Leaves}
    \cup {erase(cur, i) : i \in 1 .. Len(cur)}
    \cup {swap(cur, i, i + 1) : i \in 1 .. (Len(cur) - 1)}

ArrangeViews ==
    \E n \in HotplugReceivers :
        \E new_list \in view_lists(children[n]) :
            /\ op = "idle"
            /\ structure_unchanged(children[n], new_list) => edits < MaxEdits
            /\ set_children_list(n, new_list)

HotplugAdded ==
    \E y \in ActiveLayers, o \in Outputs :
        /\ op = "idle"
        /\ outputs[y][o] = NULL
        /\ nalloc < MaxHotplug
        /\ handle_outputs_changed(y, o, TRUE)

NodeForOutput ==
    \E y \in ActiveLayers, o \in Outputs :
        /\ op = "idle"
        /\ op' = "node_for_output"
        /\ self' = y
        /\ arg' = <<>>
        /\ ret' = TRUE
        /\ at' = o
        /\ hit' = node_for_output(y, o)
        /\ before' = snapshot
        /\ UNCHANGED tree

FindNodeAtLayer ==
    \E n \in ActiveLayers, p \in Points :
        /\ op = "idle"
        /\ op' = "find_node_at"
        /\ self' = n
        /\ arg' = <<>>
        /\ ret' = TRUE
        /\ at' = p
        /\ hit' = find_node_at(n, p, {})
        /\ before' = snapshot
        /\ UNCHANGED tree

NextHotplug ==
    \/ ArrangeViews
    \/ HotplugAdded
    \/ OutputRemoved
    \/ NodeForOutput
    \/ FindNodeAtLayer
    \/ Return

SpecHotplug == Init /\ [][NextHotplug]_vars

(***************************************************************************)
(* Output hotplug where the caller of handle_outputs_changed does not keep *)
(* to its contract: an output is added that the layer already has, or one  *)
(* is removed that it does not have                                        *)
(***************************************************************************)
OutputAddedTwice ==
    \E y \in ActiveLayers, o \in Outputs :
        /\ op = "idle"
        /\ outputs[y][o] # NULL
        /\ nalloc < MaxHotplug
        /\ handle_outputs_changed(y, o, TRUE)

OutputRemovedUnknown ==
    \E y \in ActiveLayers, o \in Outputs :
        /\ op = "idle"
        /\ outputs[y][o] = NULL
        /\ handle_outputs_changed(y, o, FALSE)

NextMisuse ==
    \/ ArrangeViews
    \/ HotplugAdded
    \/ OutputRemoved
    \/ OutputAddedTwice
    \/ OutputRemovedUnknown
    \/ Return

SpecMisuse == Init /\ [][NextMisuse]_vars

(***************************************************************************)
(* Properties                                                              *)
(***************************************************************************)
StructureOf(list) == SelectSeq(list, is_structure_node)
NoDuplicates(list) == \A i, j \in 1 .. Len(list) : list[i] = list[j] => i = j
Holders(m) == {n \in InnerNodes : m \in Range(children[n])}

\* The nodes reachable from n along child lists, n included.
RECURSIVE ReachableFrom(_, _)
ReachableFrom(frontier, seen) ==
    IF frontier = {} THEN seen
    ELSE LET new == UNION {Range(children[n]) : n \in frontier \cap InnerNodes} \ seen
         IN  ReachableFrom(new, seen \cup new)
Reachable(n) == ReachableFrom({n}, {n})
MatchingLeaves(n, p) == {l \in Reachable(n) \cap Leaves : p \in Region(l)}

\* The layer nodes in stacking order, topmost first.
StackingOrder ==
    << LayerNode(OVERLAY), LayerNode(UNMANAGED), LayerNode(TOP),
       LayerNode(WORKSPACE), LayerNode(BOTTOM), LayerNode(BACKGROUND) >>

\* C1: a set_children_list call that returns false leaves every child list,
\* every parent back-reference and every output map as it was; a list that
\* omits a registered output's container is refused on a layer node and the
\* container stays among the layer's children.
C1_RejectedCallChangesNothing ==
    op = "set_children_list" =>
        /\ ret = FALSE =>
              /\ children = before.children
              /\ parent = before.parent
              /\ outputs = before.outputs
        /\ \A o \in Outputs :
              (/\ self \in LayerNodes
               /\ before.outputs[self][o] # NULL
               /\ before.outputs[self][o] \notin Range(arg))
              => /\ ret = FALSE
                 /\ before.outputs[self][o] \in Range(children[self])

C1_Witness ==
    /\ op = "set_children_list"
    /\ ret = FALSE
    /\ self \in LayerNodes
    /\ \E o \in Outputs :
          /\ outputs[self][o] # NULL
          /\ outputs[self][o] \notin Range(arg)
          /\ outputs[self][o] \in Range(children[self])

\* C2: set_children_list returns true exactly when the structure nodes of
\* the current children and of the new list are the same nodes in the same
\* order, so every list that differs only in plugin nodes is accepted.
C2_AcceptedIffStructureKept ==
    op = "set_children_list" =>
        (ret = TRUE <=> StructureOf(before.children[self]) = StructureOf(arg))

C2_Witness ==
    /\ op = "set_children_list"
    /\ ret = TRUE
    /\ arg # before.children[self]
    /\ Len(arg) = Len(before.children[self])
    /\ Len(StructureOf(arg)) > 0
    /\ Len(StructureOf(arg)) < Len(arg)

\* C3: a set_children_list call, accepted or refused, leaves the structure
\* nodes of every inner node's children the same nodes in the same order
\* (so does every sequence of such calls); no layer node of the root and no
\* output container of a layer is dropped, doubled or moved past another.
C3_GenericPathKeepsStructure ==
    op = "set_children_list" =>
        \A n \in InnerNodes :
            StructureOf(children[n]) = StructureOf(before.children[n])

C3_Witness ==
    /\ op = "set_children_list"
    /\ ret = TRUE
    /\ self \in LayerNodes
    /\ children[self] # before.children[self]
    /\ \E o \in Outputs : outputs[self][o] \in Range(children[self])

\* C4: when set_children_list returns true the receiver's children are the
\* new list, entry for entry, and every node of the list has the receiver as
\* its parent.
C4_AcceptedListInstalled ==
    (op = "set_children_list" /\ ret = TRUE) =>
        /\ children[self] = arg
        /\ \A i \in 1 .. Len(arg) : parent[arg[i]] = self

C4_Witness ==
    /\ op = "set_children_list"
    /\ ret = TRUE
    /\ Len(arg) >= 2
    /\ \E i \in 1 .. Len(arg) : before.parent[arg[i]] # self

\* C5: every node is in the child list of at most one inner node, and its
\* parent is an inner node exactly when that inner node's list holds it.
C5_ParentIsTheOnlyHolder ==
    \A m \in Nodes :
        /\ Cardinality(Holders(m)) <= 1
        /\ \A n \in InnerNodes : parent[m] = n <=> m \in Range(children[n])

\* C6: no child list holds a node at two positions.
C6_NoDuplicateChildren ==
    \A n \in InnerNodes : NoDuplicates(children[n])

\* C7: find_node_at of an inner node, when it returns, returns the result of
\* the first child in stored order whose own find_node_at is not empty, and
\* returns empty exactly when every child returns empty.
C7_FirstChildInStoredOrderWins ==
    (op = "find_node_at" /\ hit # OVERFLOW) =>
        LET list == children[self]
            r(i) == find_node_at(list[i], at, {})
        IN  /\ hit = EMPTY <=> \A i \in 1 .. Len(list) : r(i) = EMPTY
            /\ hit # EMPTY =>
                  \E i \in 1 .. Len(list) :
                      /\ r(i) = hit
                      /\ \A j \in 1 .. (i - 1) : r(j) = EMPTY

C7_Witness ==
    /\ op = "find_node_at"
    /\ \E i, j \in 1 .. Len(children[self]) :
          /\ i < j
          /\ children[self][i] \in Leaves
          /\ children[self][j] \in Leaves
          /\ children[self][i] # children[self][j]
          /\ at \in Region(children[self][i])
          /\ at \in Region(children[self][j])
          /\ hit = children[self][i]

\* C8 as claimed: find_node_at of the root, when it returns, returns a leaf
\* under the highest layer that has a leaf containing the point, and returns
\* empty exactly when no leaf reachable from the root contains the point.
C8_TopmostLayerWins ==
    (op = "find_node_at" /\ self = Root /\ hit # OVERFLOW) =>
        /\ hit = EMPTY <=> MatchingLeaves(Root, at) = {}
        /\ \A k \in 0 .. (ALL_LAYERS - 1) :
              (/\ MatchingLeaves(LayerNode(k), at) # {}
               /\ \A j \in (k + 1) .. (ALL_LAYERS - 1) :
                     MatchingLeaves(LayerNode(j), at) = {})
              => hit \in MatchingLeaves(LayerNode(k), at)

\* C8 as amended: the same, provided no plugin node that stands before that
\* layer in the root's own child list reaches a leaf containing the point.
C8_TopmostLayerWinsBehindRootLevelNodes ==
    (op = "find_node_at" /\ self = Root /\ hit # OVERFLOW) =>
        /\ hit = EMPTY <=> MatchingLeaves(Root, at) = {}
        /\ \A k \in 0 .. (ALL_LAYERS - 1) :
              (/\ MatchingLeaves(LayerNode(k), at) # {}
               /\ \A j \in (k + 1) .. (ALL_LAYERS - 1) :
                     MatchingLeaves(LayerNode(j), at) = {}
               /\ \A i \in 1 .. Len(children[Root]) :
                     (/\ ~is_structure_node(children[Root][i])
                      /\ \E q \in (i + 1) .. Len(children[Root]) :
                            children[Root][q] = LayerNode(k))
                     => MatchingLeaves(children[Root][i], at) = {})
              => hit \in MatchingLeaves(LayerNode(k), at)

C8_Witness ==
    /\ op = "find_node_at"
    /\ self = Root
    /\ \E k, j \in 0 .. (ALL_LAYERS - 1) :
          /\ j < k
          /\ MatchingLeaves(LayerNode(k), at) # {}
          /\ MatchingLeaves(LayerNode(j), at) # {}
          /\ MatchingLeaves(LayerNode(k), at) # MatchingLeaves(LayerNode(j), at)
          /\ hit \in MatchingLeaves(LayerNode(k), at)
          /\ hit \notin MatchingLeaves(LayerNode(j), at)

\* C9: a freshly constructed root node has exactly ALL_LAYERS children, the
\* layer nodes from OVERLAY down to BACKGROUND, each a structure node whose
\* parent is the root, with no children and an empty output map.
C9_FreshRoot ==
    op = "root_node_t" =>
        /\ Len(children[Root]) = ALL_LAYERS
        /\ children[Root] = StackingOrder
        /\ \A k \in 0 .. (ALL_LAYERS - 1) :
              LET y == children[Root][k + 1]
              IN  /\ y = LayerNode(ALL_LAYERS - 1 - k)
                  /\ is_structure_node(y)
                  /\ parent[y] = Root
                  /\ children[y] = <<>>
                  /\ \A o \in Outputs : node_for_output(y, o) = NULL

C9_Witness ==
    /\ op = "root_node_t"
    /\ Len(children[Root]) = ALL_LAYERS

\* C10 as claimed: the root's children are always exactly its layer nodes in
\* stacking order and nothing else.
C10_RootChildrenAreTheLayers ==
    children[Root] = StackingOrder

\* C10 as amended: the structure nodes among the root's children are always
\* exactly its layer nodes in stacking order; plugin nodes may stand among
\* them.
C10_RootStructureIsTheLayers ==
    StructureOf(children[Root]) = StackingOrder

C10_Witness ==
    /\ op = "set_children_list"
    /\ self = Root
    /\ ret = TRUE
    /\ Len(children[Root]) > ALL_LAYERS
    /\ \E i \in 1 .. Len(children[Root]) : ~is_structure_node(children[Root][i])

\* C11: the output container made by handle_outputs_changed(output, true) is
\* a structure node with exactly two children, _static first and dynamic
\* second, each a structure inner node with no children whose parent is the
\* container.
C11_FreshOutputContainer ==
    (op = "handle_outputs_changed" /\ ret = TRUE) =>
        LET c == node_for_output(self, at)
        IN  /\ c \in OutputNodes
            /\ c \notin Range(before.children[self])
            /\ is_structure_node(c)
            /\ Len(children[c]) = 2
            /\ children[c][1] = StaticNode(c[2])
            /\ children[c][2] = DynamicNode(c[2])
            /\ \A i \in 1 .. 2 :
                  /\ children[c][i] \in InnerNodes
                  /\ is_structure_node(children[c][i])
                  /\ children[children[c][i]] = <<>>
                  /\ parent[children[c][i]] = c

C11_Witness ==
    /\ op = "handle_outputs_changed"
    /\ ret = TRUE
    /\ node_for_output(self, at) \in OutputNodes
    /\ Len(children[node_for_output(self, at)]) = 2

\* C12: every set_children_list call on an output container leaves _static
\* and dynamic among its children with _static before dynamic: a list that
\* drops one of them or exchanges them is refused, and a list that keeps
\* both in order and has plugin nodes before, between or after them is
\* accepted.
C12_OutputContainerKeepsStaticAndDynamic ==
    /\ \A k \in 1 .. nalloc :
          StructureOf(children[OutputNode(k)]) = output_children(k)
    /\ (op = "set_children_list" /\ self \in OutputNodes) =>
          LET k == self[2]
          IN  /\ StructureOf(arg) # output_children(k) =>
                    /\ ret = FALSE
                    /\ children[self] = before.children[self]
              /\ (/\ StructureOf(arg) = output_children(k)
                  /\ \A i \in 1 .. Len(arg) :
                        arg[i] \in PluginNodes \cup {StaticNode(k), DynamicNode(k)})
                 => /\ ret = TRUE
                    /\ children[self] = arg

\* A list with a plugin node between _static and dynamic has been accepted
\* and a later list that exchanges or drops a structure child is refused.
C12_Witness ==
    /\ op = "set_children_list"
    /\ self \in OutputNodes
    /\ ret = FALSE
    /\ Len(children[self]) = 3
    /\ children[self][1] = StaticNode(self[2])
    /\ children[self][2] \in PluginNodes
    /\ children[self][3] = DynamicNode(self[2])
    /\ StructureOf(arg) # output_children(self[2])

\* C13: the static nodes of an output are below its dynamic nodes: when a
\* leaf under _static and a leaf under dynamic both contain the point,
\* find_node_at of the output container returns the leaf under dynamic.
C13_DynamicAboveStatic ==
    (op = "find_node_at" /\ self \in OutputNodes /\ hit # OVERFLOW) =>
        LET k == self[2]
        IN  (/\ children[self] = output_children(k)
             /\ MatchingLeaves(StaticNode(k), at) # {}
             /\ MatchingLeaves(DynamicNode(k), at) # {})
            => hit \in MatchingLeaves(DynamicNode(k), at)

\* C14: handle_outputs_changed(output, true) for an output the layer does not
\* have makes one new output container, registers it under the output (and
\* changes no other registration), appends it after the layer's previous
\* children, which keep their order, and sets its parent to the layer; the
\* list is installed although its structure nodes differ from the old ones.
C14_AddAppendsNewContainer ==
    (/\ op = "handle_outputs_changed"
     /\ ret = TRUE
     /\ before.outputs[self][at] = NULL) =>
        LET c == node_for_output(self, at)
        IN  /\ c \in OutputNodes
            /\ \A n \in InnerNodes : c \notin Range(before.children[n])
            /\ \A y \in LayerNodes, o \in Outputs :
                  /\ before.outputs[y][o] # c
                  /\ <<y, o>> # <<self, at>> => outputs[y][o] = before.outputs[y][o]
            /\ children[self] = before.children[self] \o <<c>>
            /\ parent[c] = self
            /\ \A n \in InnerNodes \ {self, c} : children[n] = before.children[n]
            /\ StructureOf(children[self]) # StructureOf(before.children[self])

C14_Witness ==
    /\ op = "handle_outputs_changed"
    /\ ret = TRUE
    /\ before.outputs[self][at] = NULL
    /\ Len(before.children[self]) >= 3
    /\ \E i, j \in 1 .. Len(before.children[self]) :
          /\ before.children[self][i] \in OutputNodes
          /\ before.children[self][j] \in Leaves
    /\ children[self][Len(children[self])] = node_for_output(self, at)

\* C15: handle_outputs_changed(output, false) for an output the layer has
\* leaves the output without a registered node and takes exactly that
\* output's container out of the layer's children, wherever it stands among
\* views and other containers; the other children keep their relative order
\* and no other registration changes.
C15_RemoveTakesOutTheContainer ==
    (/\ op = "handle_outputs_changed"
     /\ ret = FALSE
     /\ before.outputs[self][at] # NULL) =>
        LET c == before.outputs[self][at]
            old == before.children[self]
            keep(m) == m # c
        IN  /\ node_for_output(self, at) = NULL
            /\ c \notin Range(children[self])
            /\ children[self] = SelectSeq(old, keep)
            /\ Len(children[self]) = Len(old) - 1
            /\ \A y \in LayerNodes, o \in Outputs :
                  <<y, o>> # <<self, at>> => outputs[y][o] = before.outputs[y][o]
            /\ \A n \in InnerNodes \ {self} : children[n] = before.children[n]

\* The container removed stood between a view and something else.
C15_Witness ==
    /\ op = "handle_outputs_changed"
    /\ ret = FALSE
    /\ before.outputs[self][at] # NULL
    /\ \E i \in 2 .. (Len(before.children[self]) - 1) :
          /\ before.children[self][i] = before.outputs[self][at]
          /\ before.children[self][i - 1] \in Leaves
    /\ before.outputs[self][at] \notin Range(children[self])

\* C16: under set_children_list calls and handle_outputs_changed calls that
\* add an output the layer does not have or remove one it has, in every state
\* and for every layer the nodes registered in the output map are exactly the
\* structure nodes among the layer's children, no two outputs share a node,
\* and every registered container is in the children exactly once.
C16_MapMatchesStructureChildren ==
    \A y \in LayerNodes :
        LET registered == {outputs[y][o] : o \in Outputs} \ {NULL}
        IN  /\ registered = Range(StructureOf(children[y]))
            /\ \A o1, o2 \in Outputs :
                  (outputs[y][o1] # NULL /\ outputs[y][o1] = outputs[y][o2]) => o1 = o2
            /\ \A c \in registered :
                  Cardinality({i \in 1 .. Len(children[y]) : children[y][i] = c}) = 1

\* A layer with two registered containers and a view has had one of its
\* outputs removed or a list refused.
C16_Witness ==
    /\ op \in {"handle_outputs_changed", "set_children_list"}
    /\ ret = FALSE
    /\ self \in LayerNodes
    /\ Cardinality({before.outputs[self][o] : o \in Outputs} \ {NULL}) = 2
    /\ \E i \in 1 .. Len(children[self]) : children[self][i] \in Leaves

\* C17: a handle_outputs_changed call that adds an output the layer already
\* has, or removes one it does not have, ends in an error: it never returns
\* normally, and it leaves the output maps and the child lists as they were.
C17_MisuseEndsInError ==
    LET misuse == \/ ret = TRUE /\ before.outputs[self][at] # NULL
                  \/ ret = FALSE /\ before.outputs[self][at] = NULL
    IN  (op \in {"handle_outputs_changed", "abort"} /\ misuse) =>
            /\ op = "abort"
            /\ outputs = before.outputs
            /\ children = before.children

SkeletonWithOneView(l) ==
    /\ children[Root] = StackingOrder
    /\ \E y \in LayerNodes, o \in Outputs :
          LET c == node_for_output(y, o)
          IN  /\ c # NULL
              /\ children[y] = <<c>>
              /\ children[c] = output_children(c[2])
              /\ \/ children[StaticNode(c[2])] = <<l>> /\ children[DynamicNode(c[2])] = <<>>
                 \/ children[StaticNode(c[2])] = <<>> /\ children[DynamicNode(c[2])] = <<l>>
              /\ \A z \in LayerNodes \ {y} : children[z] = <<>>

\* C19: after the root is constructed, an output is added to a layer and a
\* view is put under the output's dynamic or static node by set_children_list
\* (the call returns true), find_node_at of the root returns the view for
\* every point of its region and returns empty for every other point.
C19_ViewUnderOutputIsFound ==
    /\ (/\ op = "set_children_list"
        /\ self \in StaticNodes \cup DynamicNodes
        /\ \A i \in 1 .. Len(arg) : arg[i] \in Leaves)
       => ret = TRUE /\ children[self] = arg
    /\ \A l \in Leaves :
          (op = "find_node_at" /\ self = Root /\ SkeletonWithOneView(l)) =>
              hit = IF at \in Region(l) THEN l ELSE EMPTY

C19_Witness ==
    /\ op = "find_node_at"
    /\ self = Root
    /\ SkeletonWithOneView(LeafA)
    /\ children[DynamicNode(1)] = <<LeafA>>
    /\ at \in Region(LeafA)
    /\ hit = LeafA

\* C20: node_for_output is a stable lookup that changes nothing. The node
\* registered for an output of a layer changes only in a
\* handle_outputs_changed call of that layer for that output, which
\* registers a container when it adds and leaves no node when it removes;
\* set_children_list calls, lookups, hit tests and the adding and removing of
\* other outputs leave it as it was. A node_for_output call returns the
\* registered node, nullptr for an output without one, and leaves the output
\* maps, the child lists and the parents as they were.
C20_NodeForOutputStable ==
    /\ \A y \in LayerNodes, o \in Outputs :
          IF op = "handle_outputs_changed" /\ self = y /\ at = o
          THEN /\ ret = TRUE => outputs[y][o] \in OutputNodes
               /\ ret = FALSE => outputs[y][o] = NULL
          ELSE outputs[y][o] = before.outputs[y][o]
    /\ op = "node_for_output" =>
          /\ hit = outputs[self][at]
          /\ hit # NULL <=> hit \in Range(children[self]) \cap OutputNodes
          /\ outputs = before.outputs
          /\ children = before.children
          /\ parent = before.parent

\* The first container is still returned after a second output was added to
\* the same layer and removed again and views were arranged.
C20_Witness ==
    /\ op = "node_for_output"
    /\ hit = OutputNode(1)
    /\ nalloc = 2
    /\ parent[OutputNode(2)] = self
    /\ \A y \in LayerNodes, o \in Outputs : outputs[y][o] # OutputNode(2)
    /\ edits > 0

C22_UnattachedNodeHasNoParent ==
    /\ \A m \in LiveNodes : Holders(m) = {} => parent[m] = NULL
    /\ \A m \in Nodes :
          (/\ \A n \in InnerNodes : m \notin Range(before.children[n])
           /\ Holders(m) # {})
          => /\ op \in {"set_children_list", "handle_outputs_changed"}
             /\ ret = TRUE

\* C23: find_node_at changes nothing: after a call on any inner node, for any
\* point, every child list, every parent and every output map is as it was
\* before the call.
C23_FindNodeAtReadOnly ==
    op = "find_node_at" =>
        /\ children = before.children
        /\ parent = before.parent
        /\ outputs = before.outputs

C23_Witness ==
    /\ op = "find_node_at"
    /\ self = Root
    /\ hit \in Leaves
    /\ \E y \in LayerNodes, o \in Outputs : outputs[y][o] # NULL
    /\ parent = before.parent

\* C24: handle_outputs_changed of a layer for an output changes only that
\* layer and that output's container: the output maps and children of the
\* other layers and the children of the root are as before, and every other
\* output of the layer keeps its container, still among the layer's children,
\* with the child lists and the parents of the nodes below it as before. One
\* output added to two layers has two different containers: no container is
\* registered twice.
C24_HotplugTouchesOneLayerOneOutput ==
    /\ op = "handle_outputs_changed" =>
          /\ \A z \in LayerNodes \ {self} :
                /\ outputs[z] = before.outputs[z]
                /\ children[z] = before.children[z]
          /\ children[Root] = before.children[Root]
          /\ \A o \in Outputs \ {at} :
                LET c == before.outputs[self][o]
                IN  /\ outputs[self][o] = c
                    /\ c # NULL =>
                          /\ c \in Range(children[self])
                          /\ \A m \in Reachable(c) \cap InnerNodes :
                                children[m] = before.children[m]
                          /\ \A m \in Reachable(c) \ {c} :
                                parent[m] = before.parent[m]
    /\ \A y1, y2 \in LayerNodes, o1, o2 \in Outputs :
          (outputs[y1][o1] # NULL /\ outputs[y1][o1] = outputs[y2][o2])
          => <<y1, o1>> = <<y2, o2>>

\* C25: set_children_list never attaches or moves a structure node: a call
\* whose list holds a structure node that is not a child of the receiver
\* returns false. So every layer is a child of the root only, the _static and
\* dynamic nodes of a container are children of that container only, and a
\* container is a child of the layer it is registered in and of nothing else
\* (of nothing when it has been removed), whoever keeps a handle to it.
C25_StructureNodesStayWhereCreated ==
    /\ op = "set_children_list" =>
          ((\E i \in 1 .. Len(arg) :
               /\ is_structure_node(arg[i])
               /\ arg[i] \notin Range(before.children[self]))
           => ret = FALSE)
    /\ \A y \in LayerNodes : Holders(y) = {Root}
    /\ Holders(Root) = {}
    /\ \A k \in 1 .. nalloc :
          /\ Holders(StaticNode(k)) = {OutputNode(k)}
          /\ Holders(DynamicNode(k)) = {OutputNode(k)}
          /\ Holders(OutputNode(k)) =
                 {y \in LayerNodes : \E o \in Outputs : outputs[y][o] = OutputNode(k)}
          /\ Cardinality(Holders(OutputNode(k))) <= 1

\* A plugin that kept the handle of a removed container tries to put it back
\* into a child list and is refused.
C25_Witness ==
    /\ op = "set_children_list"
    /\ ret = FALSE
    /\ \E i \in 1 .. Len(arg) :
          /\ arg[i] \in OutputNodes
          /\ arg[i] \notin Range(before.children[self])
          /\ Holders(arg[i]) = {}
          /\ parent[arg[i]] \in LayerNodes

\* The nodes below n: its children, their children and so on.
Descendants(n) == ReachableFrom(Range(children[n]), Range(children[n]))

\* C26: the scenegraph is a tree: no inner node, a plugin's inner node
\* included, is in its own child list or in the child list of a node below
\* it.
C26_ChildrenAcyclic ==
    \A n \in InnerNodes : n \notin Descendants(n)

\* C27: find_node_at of the root returns, with a node or with nothing, on
\* every reachable scenegraph: the traversal never re-enters a node it is
\* still visiting.
C27_RootTraversalReturns ==
    (op = "find_node_at" /\ self = Root) => hit # OVERFLOW

\* C28: set_children_list with the receiver's current list returns true and
\* leaves every child list as it was; and when the nodes of that list already
\* have the receiver as their parent, as they do after an accepted call with
\* the same list, the parents are as they were too.
C28_CurrentListIdempotent ==
    (op = "set_children_list" /\ arg = before.children[self]) =>
        /\ ret = TRUE
        /\ children = before.children
        /\ outputs = before.outputs
        /\ (\A i \in 1 .. Len(arg) : before.parent[arg[i]] = self)
              => parent = before.parent

C28_Witness ==
    /\ op = "set_children_list"
    /\ arg = before.children[self]
    /\ ret = TRUE
    /\ Len(arg) >= 2
    /\ \E i \in 1 .. Len(arg) : arg[i] \in PluginNodes
    /\ \E i \in 1 .. Len(arg) : is_structure_node(arg[i])
    /\ \A i \in 1 .. Len(arg) : before.parent[arg[i]] = self

\* The containers made for an output that has since been removed.
RemovedContainers ==
    {OutputNode(k) : k \in 1 .. nalloc}
        \ {outputs[y][o] : y \in LayerNodes, o \in Outputs}

\* C29: after handle_outputs_changed(output, false) the removed container is
\* not below the root, and find_node_at of the root never returns a leaf that
\* is below the removed container and not below the root by another way,
\* also when a plugin puts leaves under the container or its _static and
\* dynamic nodes afterwards.
C29_RemovedOutputNotHit ==
    \A c \in RemovedContainers :
        /\ c \notin Reachable(Root)
        /\ (op = "find_node_at" /\ self = Root) =>
              hit \notin (Reachable(c) \cap Leaves) \ Reachable(Root)

\* A hit test at a point of a leaf that was put under the dynamic node of a
\* removed container.
C29_Witness ==
    /\ op = "find_node_at"
    /\ self = Root
    /\ \E c \in RemovedContainers :
          \E l \in Leaves :
              /\ l \in Range(children[DynamicNode(c[2])])
              /\ l \notin Reachable(Root)
              /\ at \in Region(l)
              /\ hit # l

====
